---- MODULE Spec2Model ----
(***************************************************************************)
(* Whatsub users microservice: the account table, the Google login         *)
(* handler, the JWT session tokens and the bearer guard of the             *)
(* account-scoped endpoints.                                               *)
(*                                                                         *)
(* Python values are modelled as follows.  A str is a tuple of characters  *)
(* (so "" is <<>>), except opaque identifiers (Google subject ids, issuer  *)
(* names, role names), which are TLA+ strings.  An Optional[T] is a        *)
(* sequence of length 0 (None) or 1 (Some(v)).  uuid4 ids are drawn from a *)
(* counter, so that an id is never generated twice.  Every handler is cut  *)
(* at its store calls: one action is the local code up to and including    *)
(* one call of the user service (one database transaction).                *)
(***************************************************************************)
EXTENDS Integers, Sequences, FiniteSets, TLC

VARIABLES
    users,      \* the rows of table "users" (UserORM)
    nextId,     \* the next uuid4 that str(uuid.uuid4()) returns
    now,        \* datetime.utcnow(), in seconds
    settings,   \* the cached Settings object
    login,      \* the google_login requests in flight, one record per worker
    req,        \* the account-scoped requests in flight, one record per worker
    issued,     \* every access token create_access_token has returned
    last,       \* the last successful login, while nothing has touched the table since
    ops,        \* how many requests and clock ticks there have been so far
    app         \* the process: how far main.py got, and app.state.user_service

vars == <<users, nextId, now, settings, login, req, issued, last, ops, app>>

----------------------------------------------------------------------------
(* Bounds of the model *)

MaxUsers == 3
MaxOps == 2

SecondsPerMinute == 60
Logins == {1, 2}
Reqs == {1}

----------------------------------------------------------------------------
(* Python values *)

None == <<>>
Some(v) == <<v>>
Truthy(opt) == opt # None /\ opt[1] # <<>>

EmailA == <<"a", "@", "x">>
EmailB == <<"b", "@", "x">>
Emails == {EmailA, EmailB}
GoogleIds == {"g1", "g2"}
NameN == <<"n">>
NameM == <<"m">>
PhoneP == <<"5">>
UserIds == 1..MaxUsers

\* str.split('@')[0]: the characters before the first '@' (all of them if none)
RECURSIVE SplitAtFirst(_)
SplitAtFirst(s) ==
    IF s = <<>> \/ Head(s) = "@" THEN <<>>
    ELSE <<Head(s)>> \o SplitAtFirst(Tail(s))

----------------------------------------------------------------------------
(* The table "users" and the user service (SqlAlchemyUserService) *)

\* UserRead(id=row.user_id, email=row.email, full_name=row.username, ...)
UserRead(row) ==
    [id |-> row.user_id, email |-> row.email, full_name |-> row.username,
     primary_phone |-> row.phone, role |-> row.role]

\* The constraints of UserORM: the primary key, unique email, unique google_id
\* (a unique index admits any number of NULLs)
UniqueOk(rows) ==
    \A r1 \in rows : \A r2 \in rows :
        r1 # r2 =>
            /\ r1.user_id # r2.user_id
            /\ r1.email # r2.email
            /\ (r1.google_id # None => r1.google_id # r2.google_id)

\* A commit that the constraints of the table do not stop
Commit_unchecked(tbl, newtbl, result) ==
    [users |-> newtbl, result |-> result, raised |-> FALSE]

\* session.commit(): the new table if the constraints admit it, else IntegrityError
\* and the rollback of the transaction
Commit(tbl, newtbl, result) ==
    IF UniqueOk(newtbl)
    THEN [users |-> newtbl, result |-> result, raised |-> FALSE]
    ELSE [users |-> tbl, result |-> None, raised |-> TRUE]

\* query.first(): a matching row, or None
First(rows) == IF rows = {} THEN None ELSE Some(CHOOSE r \in rows : TRUE)

session_get(tbl, user_id) == First({r \in tbl : r.user_id = user_id})

get_user(tbl, user_id) ==
    LET row == session_get(tbl, user_id)
    IN  IF row = None THEN None ELSE Some(UserRead(row[1]))

get_user_by_google_id(tbl, google_id) ==
    LET row == First({r \in tbl : r.google_id = Some(google_id)})
    IN  IF row = None THEN None ELSE Some(UserRead(row[1]))

get_user_by_email(tbl, email) ==
    LET row == First({r \in tbl : r.email = email})
    IN  IF row = None THEN None ELSE Some(UserRead(row[1]))

\* create_user: username is NOT NULL, so a payload without full_name fails at commit
create_user(tbl, id, payload) ==
    IF payload.full_name = None
    THEN [users |-> tbl, result |-> None, raised |-> TRUE]
    ELSE LET new_row == [user_id |-> id, username |-> payload.full_name[1],
                         email |-> payload.email, phone |-> payload.primary_phone,
                         google_id |-> None, role |-> "user"]
         IN  Commit(tbl, tbl \cup {new_row}, Some(UserRead(new_row)))

\* An insert that is not checked against the rows already there
create_user_from_google_unchecked(tbl, id, google_id, email, name) ==
    LET username == IF Truthy(name) THEN name[1] ELSE SplitAtFirst(email)
        new_row == [user_id |-> id, username |-> username, email |-> email,
                    phone |-> None, google_id |-> Some(google_id), role |-> "user"]
    IN  [users |-> tbl \cup {new_row}, result |-> Some(UserRead(new_row)),
         raised |-> FALSE]

\* An insert that takes the name of the claims whenever it is not None, empty or not
create_user_from_google_empty_name(tbl, id, google_id, email, name) ==
    LET username == IF name # None THEN name[1] ELSE SplitAtFirst(email)
        new_row == [user_id |-> id, username |-> username, email |-> email,
                    phone |-> None, google_id |-> Some(google_id), role |-> "user"]
    IN  Commit(tbl, tbl \cup {new_row}, Some(UserRead(new_row)))

create_user_from_google(tbl, id, google_id, email, name) ==
    LET username == IF Truthy(name) THEN name[1] ELSE SplitAtFirst(email)
        new_row == [user_id |-> id, username |-> username, email |-> email,
                    phone |-> None, google_id |-> Some(google_id), role |-> "user"]
    IN  Commit(tbl, tbl \cup {new_row}, Some(UserRead(new_row)))

\* An update that writes a role into the row
update_user_writes_role(tbl, user_id, payload) ==
    LET row == session_get(tbl, user_id)
    IN  IF row = None THEN [users |-> tbl, result |-> None, raised |-> FALSE]
        ELSE LET new_row ==
                    [row[1] EXCEPT
                        !.email = IF payload.email # None THEN payload.email[1] ELSE @,
                        !.username = IF payload.full_name # None
                                     THEN payload.full_name[1] ELSE @,
                        !.phone = IF payload.primary_phone # None
                                  THEN payload.primary_phone ELSE @,
                        !.role = "admin"]
             IN  Commit(tbl, (tbl \ {row[1]}) \cup {new_row}, Some(UserRead(new_row)))

update_user(tbl, user_id, payload) ==
    LET row == session_get(tbl, user_id)
    IN  IF row = None THEN [users |-> tbl, result |-> None, raised |-> FALSE]
        ELSE LET new_row ==
                    [row[1] EXCEPT
                        !.email = IF payload.email # None THEN payload.email[1] ELSE @,
                        !.username = IF payload.full_name # None
                                     THEN payload.full_name[1] ELSE @,
                        !.phone = IF payload.primary_phone # None
                                  THEN payload.primary_phone ELSE @]
             IN  Commit(tbl, (tbl \ {row[1]}) \cup {new_row}, Some(UserRead(new_row)))

\* A link that forgets the assignment row.google_id = google_id
link_google_id_noop(tbl, user_id, google_id) ==
    LET row == session_get(tbl, user_id)
    IN  IF row = None THEN [users |-> tbl, result |-> None, raised |-> FALSE]
        ELSE [users |-> tbl, result |-> Some(UserRead(row[1])), raised |-> FALSE]

\* A link that also resets the username of the row
link_google_id_renames(tbl, user_id, google_id) ==
    LET row == session_get(tbl, user_id)
    IN  IF row = None THEN [users |-> tbl, result |-> None, raised |-> FALSE]
        ELSE LET new_row == [row[1] EXCEPT !.google_id = Some(google_id),
                                           !.username = NameM]
             IN  Commit(tbl, (tbl \ {row[1]}) \cup {new_row}, Some(UserRead(new_row)))

link_google_id(tbl, user_id, google_id) ==
    LET row == session_get(tbl, user_id)
    IN  IF row = None THEN [users |-> tbl, result |-> None, raised |-> FALSE]
        ELSE LET new_row == [row[1] EXCEPT !.google_id = Some(google_id)]
             IN  Commit(tbl, (tbl \ {row[1]}) \cup {new_row}, Some(UserRead(new_row)))

\* A delete that returns True without its commit
delete_user_no_commit(tbl, user_id) ==
    LET row == session_get(tbl, user_id)
    IN  IF row = None THEN [users |-> tbl, ok |-> FALSE]
        ELSE [users |-> tbl, ok |-> TRUE]

delete_user(tbl, user_id) ==
    LET row == session_get(tbl, user_id)
    IN  IF row = None THEN [users |-> tbl, ok |-> FALSE]
        ELSE [users |-> tbl \ {row[1]}, ok |-> TRUE]

----------------------------------------------------------------------------
(* AuthService *)

GoogleIssuers == {"accounts.google.com", "https://accounts.google.com"}

\* A Google ID token, by what id_token.verify_oauth2_token makes of it: valid says
\* whether signature, expiry and audience pass; the other fields are its idinfo
IdTokens ==
    [valid : {FALSE}, iss : {"accounts.google.com"}, sub : {"g1"}, email : {None},
     name : {None}, email_verified : {FALSE}]
    \cup
    [valid : {TRUE}, iss : {"evil.example"}, sub : {"g1"}, email : {Some(EmailA)},
     name : {None}, email_verified : {TRUE}]
    \cup
    [valid : {TRUE}, iss : {"https://accounts.google.com"}, sub : {"g1"},
     email : {None, Some(<<>>)}, name : {Some(NameN)}, email_verified : {FALSE}]
    \cup
    {[valid |-> TRUE, iss |-> "accounts.google.com", sub |-> "g1",
      email |-> Some(EmailA), name |-> Some(NameN), email_verified |-> TRUE],
     [valid |-> TRUE, iss |-> "accounts.google.com", sub |-> "g1",
      email |-> Some(EmailB), name |-> None, email_verified |-> TRUE],
     [valid |-> TRUE, iss |-> "accounts.google.com", sub |-> "g2",
      email |-> Some(EmailA), name |-> None, email_verified |-> FALSE],
     [valid |-> TRUE, iss |-> "accounts.google.com", sub |-> "g2",
      email |-> Some(EmailB), name |-> Some(<<>>), email_verified |-> TRUE]}

\* verify_google_token: the user_info dict, or None
verify_google_token(id_token_str, google_client_id) ==
    IF ~Truthy(google_client_id) THEN None
    ELSE IF ~id_token_str.valid THEN None
    ELSE IF id_token_str.iss \notin GoogleIssuers THEN None
    ELSE Some([google_id |-> id_token_str.sub, email |-> id_token_str.email,
               name |-> id_token_str.name,
               email_verified |-> id_token_str.email_verified])

\* get_token_expires_in
get_token_expires_in(s) == s.jwt_access_token_expire_minutes * SecondsPerMinute

\* A token signed with the Google client secret instead of the JWT secret key
create_access_token_other_key(user_id, email, role, t, s) ==
    [sub |-> Some(user_id), email |-> email, role |-> role,
     exp |-> t[1] + s.jwt_access_token_expire_minutes * SecondsPerMinute, iat |-> t[2],
     key |-> "google-client-secret"]

\* create_access_token: the payload jwt.encode signs with the server's key.  The
\* clock is read twice, t[1] for "exp" and then t[2] for "iat", and jwt.encode
\* keeps the whole seconds of both
create_access_token(user_id, email, role, t, s) ==
    [sub |-> Some(user_id), email |-> email, role |-> role,
     exp |-> t[1] + s.jwt_access_token_expire_minutes * SecondsPerMinute, iat |-> t[2],
     key |-> s.jwt_secret_key]

\* The two readings of datetime.utcnow() in create_access_token, in whole seconds,
\* when the second turns d times between them
utcnow(d) == <<now, now + d>>

\* The readings that fall into the same second, and those around the turn of one
SameSecond == {0}
TurnOfSecond == {0, 1}

----------------------------------------------------------------------------
(* google_login (POST /auth/google) *)

IdleLogin ==
    [pc |-> "idle", info |-> None, user |-> None, is_new_user |-> FALSE,
     status |-> 0, detail |-> "", token |-> None, expires_in |-> 0,
     calls |-> 0, alone |-> FALSE, n0 |-> 0, foreign |-> FALSE, pre |-> "",
     prev |-> None, link |-> "", created |-> None]

\* Whether two requests carry the same claims
SameClaims(l1, l2) ==
    /\ l1.info # None /\ l2.info # None
    /\ l1.info[1].google_id = l2.info[1].google_id
    /\ l1.info[1].email = l2.info[1].email

\* History kept for the requests in flight: actor (a login worker, or 0 for any
\* other request) has changed the table from users to newtbl
Touched(L, actor, newtbl) ==
    IF newtbl = users THEN L
    ELSE [q \in Logins |->
            IF q = actor \/ L[q].pc = "idle" THEN L[q]
            ELSE [L[q] EXCEPT
                    !.alone = FALSE,
                    !.foreign = @ \/ actor = 0 \/ ~SameClaims(L[actor], L[q])]]

\* raise HTTPException(status_code, detail), or an exception no handler catches (500)
Raise(l, status_code, detail) ==
    [l EXCEPT !.pc = "done", !.status = status_code, !.detail = detail]

\* Steps 6-7: the access token and the GoogleLoginResponse
Respond(l, user, is_new_user, t, s) ==
    [l EXCEPT !.pc = "done", !.status = 200, !.user = Some(user),
              !.is_new_user = is_new_user,
              !.token = Some(create_access_token(user.id, user.email, user.role, t, s)),
              !.expires_in = get_token_expires_in(s)]

\* A start that tests the email against None only, so that "" passes
google_login_start_none_only(l, id_token, tbl, t, s) ==
    LET google_user_info == verify_google_token(id_token, s.google_client_id)
    IN  IF google_user_info = None
        THEN Raise(l, 400, "Invalid or expired Google ID token")
        ELSE LET m == [l EXCEPT !.info = google_user_info] IN
             IF google_user_info[1].email = None
             THEN Raise(m, 400, "Email not found in Google token")
             ELSE LET user == get_user_by_google_id(tbl, google_user_info[1].google_id)
                      n == [m EXCEPT !.calls = @ + 1]
                  IN  IF user # None THEN Respond(n, user[1], FALSE, t, s)
                      ELSE [n EXCEPT !.pc = "by_email"]

\* A start that looks the user up by email before it does by Google ID
google_login_start_email_first(l, id_token, tbl, t, s) ==
    LET google_user_info == verify_google_token(id_token, s.google_client_id)
    IN  IF google_user_info = None
        THEN Raise(l, 400, "Invalid or expired Google ID token")
        ELSE LET m == [l EXCEPT !.info = google_user_info] IN
             IF ~Truthy(google_user_info[1].email)
             THEN Raise(m, 400, "Email not found in Google token")
             ELSE LET by_email == get_user_by_email(tbl, google_user_info[1].email[1])
                      user == get_user_by_google_id(tbl, google_user_info[1].google_id)
                      n == [m EXCEPT !.calls = @ + 1]
                  IN  IF by_email # None THEN [n EXCEPT !.user = by_email, !.pc = "link"]
                      ELSE IF user # None THEN Respond(n, user[1], FALSE, t, s)
                      ELSE [n EXCEPT !.pc = "by_email"]

\* Steps 1-3: verify the ID token, require an email, look the user up by Google ID
google_login_start(l, id_token, tbl, t, s) ==
    LET google_user_info == verify_google_token(id_token, s.google_client_id)
    IN  IF google_user_info = None
        THEN Raise(l, 400, "Invalid or expired Google ID token")
        ELSE LET m == [l EXCEPT !.info = google_user_info] IN
             IF ~Truthy(google_user_info[1].email)
             THEN Raise(m, 400, "Email not found in Google token")
             ELSE LET user == get_user_by_google_id(tbl, google_user_info[1].google_id)
                      n == [m EXCEPT !.calls = @ + 1]
                  IN  IF user # None THEN Respond(n, user[1], FALSE, t, s)
                      ELSE [n EXCEPT !.pc = "by_email"]

\* Step 4, first half: look the user up by email
google_login_by_email(l, tbl) ==
    LET user == get_user_by_email(tbl, l.info[1].email[1])
    IN  [l EXCEPT !.user = user, !.calls = @ + 1,
                  !.pc = IF user # None THEN "link" ELSE "create"]

\* Step 4, second half: link the Google ID; r is what link_google_id did.
\* A None result makes user.id raise in the try block and again in the handler
google_login_link(l, r, t, s) ==
    IF r.raised
    THEN Respond([l EXCEPT !.calls = @ + 1, !.link = "raised"], l.user[1], FALSE, t, s)
    ELSE IF r.result = None
         THEN Raise([l EXCEPT !.calls = @ + 1, !.link = "gone", !.user = None],
                    500, "Internal Server Error")
         ELSE Respond([l EXCEPT !.calls = @ + 1, !.link = "ok"], r.result[1], FALSE, t, s)

\* A create branch that forgets is_new_user = True
google_login_create_not_new(l, r, t, s) ==
    IF r.raised
    THEN Raise([l EXCEPT !.calls = @ + 1], 500, "Failed to create user account")
    ELSE Respond([l EXCEPT !.calls = @ + 1, !.created = Some(r.result[1].id)],
                 r.result[1], FALSE, t, s)

\* A create branch that goes back to the lookup by email when the insert fails
google_login_create_retry(l, r, t, s) ==
    IF r.raised
    THEN [l EXCEPT !.calls = @ + 1, !.pc = "by_email"]
    ELSE Respond([l EXCEPT !.calls = @ + 1, !.created = Some(r.result[1].id)],
                 r.result[1], TRUE, t, s)

\* Step 5: create the user; r is what create_user_from_google did
google_login_create(l, r, t, s) ==
    IF r.raised
    THEN Raise([l EXCEPT !.calls = @ + 1], 500, "Failed to create user account")
    ELSE Respond([l EXCEPT !.calls = @ + 1, !.created = Some(r.result[1].id)],
                 r.result[1], TRUE, t, s)

\* What a response adds to the tokens in circulation
Tokens(l) == IF l.token = None THEN {} ELSE {l.token[1]}

\* The last successful login, for the next one to compare with
LastOf(l, old) ==
    IF l.pc = "done" /\ l.status = 200
    THEN Some([google_id |-> l.info[1].google_id, email |-> l.info[1].email,
               id |-> l.user[1].id, is_new_user |-> l.is_new_user])
    ELSE old

\* The login before this one, if it carried the same claims
PrevOf(l, old) ==
    IF /\ old # None /\ l.info # None
       /\ old[1].google_id = l.info[1].google_id /\ old[1].email = l.info[1].email
    THEN Some([id |-> old[1].id, is_new_user |-> old[1].is_new_user])
    ELSE None

\* How the table stands to the claims of a login when it starts
PreOf(l, tbl) ==
    IF l.info = None \/ ~Truthy(l.info[1].email) THEN ""
    ELSE IF \E r \in tbl : r.google_id = Some(l.info[1].google_id) THEN "known"
    ELSE IF \E r \in tbl : r.email = l.info[1].email[1] /\ r.google_id = None
         THEN "email_unlinked"
    ELSE IF \E r \in tbl : r.email = l.info[1].email[1] THEN "email_linked"
    ELSE "fresh"

LoginStart(p, id_token, d) ==
    /\ app.phase = "serving"
    /\ login[p].pc \in {"idle", "done"}
    /\ \A q \in Logins : q < p => login[q].pc \notin {"idle", "done"}
    /\ ops < MaxOps
    /\ LET l0 == [IdleLogin EXCEPT !.alone = TRUE, !.n0 = Cardinality(users)]
           l1 == google_login_start(l0, id_token, users, utcnow(d), settings)
           l == [l1 EXCEPT !.prev = PrevOf(l1, last), !.pre = PreOf(l1, users)]
       IN  /\ login' = [login EXCEPT ![p] = l]
           /\ issued' = issued \cup Tokens(l)
           /\ last' = LastOf(l, last)
    /\ ops' = ops + 1
    /\ UNCHANGED <<app, users, nextId, now, settings, req>>

LoginByEmail(p) ==
    /\ login[p].pc = "by_email"
    /\ login' = [login EXCEPT ![p] = google_login_by_email(login[p], users)]
    /\ UNCHANGED <<app, users, nextId, now, settings, req, issued, last, ops>>

LoginLink(p, d) ==
    /\ login[p].pc = "link"
    /\ LET r == link_google_id(users, login[p].user[1].id, login[p].info[1].google_id)
           l == google_login_link(login[p], r, utcnow(d), settings)
       IN  /\ users' = r.users
           /\ login' = Touched([login EXCEPT ![p] = l], p, r.users)
           /\ issued' = issued \cup Tokens(l)
           /\ last' = LastOf(l, IF r.users = users THEN last ELSE None)
    /\ UNCHANGED <<app, nextId, now, settings, req, ops>>

LoginCreate(p, d) ==
    /\ login[p].pc = "create"
    /\ LET r == create_user_from_google(users, nextId, login[p].info[1].google_id,
                                        login[p].info[1].email[1], login[p].info[1].name)
           l == google_login_create(login[p], r, utcnow(d), settings)
       IN  /\ r.raised \/ nextId <= MaxUsers
           /\ users' = r.users
           /\ nextId' = IF r.raised THEN nextId ELSE nextId + 1
           /\ login' = Touched([login EXCEPT ![p] = l], p, r.users)
           /\ issued' = issued \cup Tokens(l)
           /\ last' = LastOf(l, IF r.users = users THEN last ELSE None)
    /\ UNCHANGED <<app, now, settings, req, ops>>

----------------------------------------------------------------------------
(* Access tokens on the wire and the Authorization header *)

\* A header is a string of items: a blank, a word, or an encoded JWT
Sp == [t |-> "sp"]
Word(w) == [t |-> "word", w |-> w]
Jwt(token) == [t |-> "jwt", v |-> token]

\* str.split(): the items between the blanks
Split(h) == SelectSeq(h, LAMBDA x : x.t # "sp")

\* A comparison of the scheme that minds the case
Lower_as_is(x) == IF x.t # "word" THEN "<jwt>" ELSE x.w

\* str.lower() of an item
Lower(x) ==
    IF x.t # "word" THEN "<jwt>"
    ELSE CASE x.w \in {"Bearer", "bearer", "BEARER"} -> "bearer"
           [] x.w = "Basic" -> "basic"
           [] OTHER -> x.w

\* A verification that asks the table whether the subject is still there
verify_access_token_checks_store(token, t, s) ==
    IF token.t # "jwt" THEN None
    ELSE IF token.v.key # s.jwt_secret_key THEN None
    ELSE IF token.v.exp <= t THEN None
    ELSE IF token.v.sub # None /\ get_user(users, token.v.sub[1]) = None THEN None
    ELSE Some(token.v)

\* A verification that lets a token pass at the very second of its expiry
verify_access_token_at_expiry(token, t, s) ==
    IF token.t # "jwt" THEN None
    ELSE IF token.v.key # s.jwt_secret_key THEN None
    ELSE IF token.v.exp < t THEN None
    ELSE Some(token.v)

\* verify_access_token at time t: the payload, or None.  jwt.decode rejects what is
\* no JWT, a signature made with another key, and exp <= now
verify_access_token(token, t, s) ==
    IF token.t # "jwt" THEN None
    ELSE IF token.v.key # s.jwt_secret_key THEN None
    ELSE IF token.v.exp <= t THEN None
    ELSE Some(token.v)

\* A dependency that trusts the payload of the token and asks the table nothing
get_current_user_no_lookup(authorization, tbl, t, s) ==
    IF authorization = None \/ authorization = Some(<<>>)
    THEN [status |-> 401, detail |-> "Authorization header missing", user |-> None]
    ELSE LET parts == Split(authorization[1]) IN
         IF Len(parts) # 2 \/ Lower(parts[1]) # "bearer"
         THEN [status |-> 401, detail |-> "Invalid authorization header format. Expected: Bearer <token>",
               user |-> None]
         ELSE LET payload == verify_access_token(parts[2], t, s) IN
              IF payload = None
              THEN [status |-> 401, detail |-> "Invalid or expired token", user |-> None]
              ELSE IF payload[1].sub = None
              THEN [status |-> 401, detail |-> "Invalid token payload", user |-> None]
              ELSE [status |-> 200, detail |-> "",
                    user |-> Some([id |-> payload[1].sub[1], email |-> payload[1].email,
                                   full_name |-> NameN, primary_phone |-> None,
                                   role |-> payload[1].role])]

\* A dependency that, finding no account of the token's id, takes the account
\* that has the token's email
get_current_user_by_email(authorization, tbl, t, s) ==
    IF authorization = None \/ authorization = Some(<<>>)
    THEN [status |-> 401, detail |-> "Authorization header missing", user |-> None]
    ELSE LET parts == Split(authorization[1]) IN
         IF Len(parts) # 2 \/ Lower(parts[1]) # "bearer"
         THEN [status |-> 401, detail |-> "Invalid authorization header format. Expected: Bearer <token>",
               user |-> None]
         ELSE LET payload == verify_access_token(parts[2], t, s) IN
              IF payload = None
              THEN [status |-> 401, detail |-> "Invalid or expired token", user |-> None]
              ELSE IF payload[1].sub = None
              THEN [status |-> 401, detail |-> "Invalid token payload", user |-> None]
              ELSE LET user == get_user(tbl, payload[1].sub[1])
                       other == get_user_by_email(tbl, payload[1].email)
                   IN  IF user # None
                       THEN [status |-> 200, detail |-> "", user |-> user]
                       ELSE IF other # None
                       THEN [status |-> 200, detail |-> "", user |-> other]
                       ELSE [status |-> 401, detail |-> "User not found", user |-> None]

\* A dependency that returns the account with the email of the token
get_current_user_token_email(authorization, tbl, t, s) ==
    IF authorization = None \/ authorization = Some(<<>>)
    THEN [status |-> 401, detail |-> "Authorization header missing", user |-> None]
    ELSE LET parts == Split(authorization[1]) IN
         IF Len(parts) # 2 \/ Lower(parts[1]) # "bearer"
         THEN [status |-> 401, detail |-> "Invalid authorization header format. Expected: Bearer <token>",
               user |-> None]
         ELSE LET payload == verify_access_token(parts[2], t, s) IN
              IF payload = None
              THEN [status |-> 401, detail |-> "Invalid or expired token", user |-> None]
              ELSE IF payload[1].sub = None
              THEN [status |-> 401, detail |-> "Invalid token payload", user |-> None]
              ELSE LET user == get_user(tbl, payload[1].sub[1]) IN
                   IF user = None
                   THEN [status |-> 401, detail |-> "User not found", user |-> None]
                   ELSE [status |-> 200, detail |-> "",
                         user |-> Some([user[1] EXCEPT !.email = payload[1].email])]

\* get_current_user: the dependency of the protected endpoints
get_current_user(authorization, tbl, t, s) ==
    IF authorization = None \/ authorization = Some(<<>>)
    THEN [status |-> 401, detail |-> "Authorization header missing", user |-> None]
    ELSE LET parts == Split(authorization[1]) IN
         IF Len(parts) # 2 \/ Lower(parts[1]) # "bearer"
         THEN [status |-> 401, detail |-> "Invalid authorization header format. Expected: Bearer <token>",
               user |-> None]
         ELSE LET payload == verify_access_token(parts[2], t, s) IN
              IF payload = None
              THEN [status |-> 401, detail |-> "Invalid or expired token", user |-> None]
              ELSE IF payload[1].sub = None
              THEN [status |-> 401, detail |-> "Invalid token payload", user |-> None]
              ELSE LET user == get_user(tbl, payload[1].sub[1]) IN
                   IF user = None
                   THEN [status |-> 401, detail |-> "User not found", user |-> None]
                   ELSE [status |-> 200, detail |-> "", user |-> user]

\* The tokens a client can put in a header besides the ones it was given: those
\* re-signed with a key of its own, one made from scratch, and one without "sub"
\* from another holder of the signing key
Forged(tokens) ==
    {[tok EXCEPT !.key = "attacker-key"] : tok \in tokens}
    \cup {[sub |-> Some(1), email |-> EmailA, role |-> "admin", exp |-> (MaxOps + 1) * SecondsPerMinute,
           iat |-> 0, key |-> "attacker-key"],
          [sub |-> None, email |-> EmailA, role |-> "user", exp |-> (MaxOps + 1) * SecondsPerMinute,
           iat |-> 0, key |-> "your-secret-key-change-in-production"]}

Headers(tokens) ==
    {None, Some(<<>>), Some(<<Word("Bearer")>>),
     Some(<<Word("Bearer"), Sp, Word("garbage")>>),
     Some(<<Word("Basic"), Sp, Word("garbage")>>)}
    \cup {Some(<<Word(w), Sp, Jwt(tok)>>) : w \in {"Bearer", "BEARER"}, tok \in tokens}
    \cup {Some(<<Word("Bearer"), Sp, Jwt(tok)>>) : tok \in Forged(tokens)}
    \cup {Some(<<Word("Bearer"), Sp, Sp, Jwt(tok), Sp, Word("x")>>) : tok \in tokens}
    \cup {Some(<<Word("Basic"), Sp, Jwt(tok)>>) : tok \in tokens}

----------------------------------------------------------------------------
(* The endpoints of /users *)

NoPayload == [email |-> None, full_name |-> None, primary_phone |-> None]

UpdatePayloads ==
    {NoPayload,
     [NoPayload EXCEPT !.email = Some(EmailB)],
     [NoPayload EXCEPT !.email = Some(EmailA), !.primary_phone = Some(PhoneP)],
     [NoPayload EXCEPT !.full_name = Some(NameM)]}

\* The JSON bodies of PATCH /users/{user_id}: those of UpdatePayloads, and one that
\* also carries fields UserUpdate does not have
UpdateBodies ==
    UpdatePayloads
    \cup {[full_name |-> Some(NameM), id |-> Some(MaxUsers), role |-> Some("admin"),
           google_id |-> Some("g2")]}

\* UserUpdate(**body): the fields of the model, None where the body has none; what
\* else the body carries is ignored (password is a field that update_user never reads)
UserUpdate(body) ==
    [email |-> IF "email" \in DOMAIN body THEN body.email ELSE None,
     full_name |-> IF "full_name" \in DOMAIN body THEN body.full_name ELSE None,
     primary_phone |-> IF "primary_phone" \in DOMAIN body THEN body.primary_phone
                       ELSE None]

CreatePayloads ==
    [email : Emails, full_name : {None, Some(NameM)}, primary_phone : {None}]

IdleReq ==
    [pc |-> "idle", op |-> "", user_id |-> 0, payload |-> NoPayload,
     current_user |-> None, status |-> 0, detail |-> "", response |-> None,
     called |-> FALSE, changed |-> FALSE]

\* The self-only check of get_user, update_user and delete_user
NotSelf(q) == q.user_id # q.current_user[1].id

\* raise HTTPException(status_code=403): the user service is not called
Forbid(q, tbl) ==
    [users |-> tbl,
     req |-> [q EXCEPT !.pc = "done", !.status = 403, !.payload = NoPayload,
                       !.detail = CASE q.op = "get" ->
                                       "You can only access your own user information"
                                    [] q.op = "update" ->
                                       "You can only update your own user information"
                                    [] q.op = "delete" ->
                                       "You can only delete your own account"]]

\* The call of the user service and the response made of what it returns
Serve(q0, tbl) ==
    LET q == [q0 EXCEPT !.payload = NoPayload, !.called = TRUE] IN
    CASE q.op = "get" ->
            LET user == get_user(tbl, q.user_id) IN
            [users |-> tbl,
             req |-> IF user = None
                     THEN [q EXCEPT !.pc = "done", !.status = 404,
                                    !.detail = "User not found"]
                     ELSE [q EXCEPT !.pc = "done", !.status = 200, !.response = user]]
      [] q.op = "update" ->
            LET r == update_user(tbl, q.user_id, q0.payload) IN
            [users |-> r.users,
             req |-> IF r.raised
                     THEN [q EXCEPT !.pc = "done", !.status = 500,
                                    !.detail = "Internal Server Error"]
                     ELSE IF r.result = None
                     THEN [q EXCEPT !.pc = "done", !.status = 404,
                                    !.detail = "User not found"]
                     ELSE [q EXCEPT !.pc = "done", !.status = 200,
                                    !.response = r.result]]
      [] q.op = "delete" ->
            LET r == delete_user(tbl, q.user_id) IN
            [users |-> r.users,
             req |-> IF r.ok
                     THEN [q EXCEPT !.pc = "done", !.status = 204]
                     ELSE [q EXCEPT !.pc = "done", !.status = 404,
                                    !.detail = "User not found"]]

\* A body without the self-only check
users_body_unchecked(q, tbl) == Serve(q, tbl)

\* A body whose GET lacks the self-only check
users_body_get_unchecked(q, tbl) ==
    IF q.op # "get" /\ NotSelf(q) THEN Forbid(q, tbl) ELSE Serve(q, tbl)

\* A body that looks the target up before the self-only check
users_body_lookup_first(q, tbl) ==
    IF get_user(tbl, q.user_id) = None
    THEN [users |-> tbl,
          req |-> [q EXCEPT !.pc = "done", !.status = 404, !.payload = NoPayload,
                            !.called = TRUE, !.detail = "User not found"]]
    ELSE IF NotSelf(q) THEN Forbid(q, tbl) ELSE Serve(q, tbl)

\* A body that calls the user service and makes the self-only check afterwards
users_body_check_late(q, tbl) ==
    IF NotSelf(q) THEN Forbid(q, Serve(q, tbl).users) ELSE Serve(q, tbl)

\* The body of get_user, update_user and delete_user, after the dependency
users_body(q, tbl) == IF NotSelf(q) THEN Forbid(q, tbl) ELSE Serve(q, tbl)

\* A request to GET, PATCH or DELETE /users/{user_id}: the dependency runs first
ReqStart(r, op, authorization, user_id, payloads) ==
    /\ app.phase = "serving"
    /\ req[r].pc \in {"idle", "done"}
    /\ ops < MaxOps
    /\ LET g == get_current_user(authorization, users, now, settings)
           q == [IdleReq EXCEPT !.op = op, !.user_id = user_id]
       IN  IF g.status # 200
           THEN req' = [req EXCEPT ![r] =
                    [q EXCEPT !.pc = "done", !.status = g.status, !.detail = g.detail]]
           ELSE \E payload \in payloads :
                    req' = [req EXCEPT ![r] =
                        [q EXCEPT !.pc = "body", !.current_user = g.user,
                                  !.payload = payload]]
    /\ ops' = ops + 1
    /\ UNCHANGED <<app, users, nextId, now, settings, login, issued, last>>

ReqBody(r) ==
    /\ req[r].pc = "body"
    /\ LET b == users_body(req[r], users)
       IN  /\ users' = b.users
           /\ req' = [req EXCEPT ![r] = [b.req EXCEPT !.changed = (b.users # users)]]
           /\ login' = Touched(login, 0, b.users)
           /\ last' = IF b.users = users THEN last ELSE None
    /\ UNCHANGED <<app, nextId, now, settings, issued, ops>>

\* GET /auth/me: the dependency is the whole request
AuthMe(r, authorization) ==
    /\ app.phase = "serving"
    /\ req[r].pc \in {"idle", "done"}
    /\ ops < MaxOps
    /\ LET g == get_current_user(authorization, users, now, settings)
       IN  req' = [req EXCEPT ![r] =
                [IdleReq EXCEPT !.pc = "done", !.op = "me", !.status = g.status,
                                !.detail = g.detail, !.current_user = g.user,
                                !.response = g.user]]
    /\ ops' = ops + 1
    /\ UNCHANGED <<app, users, nextId, now, settings, login, issued, last>>

\* GET /users/internal/{user_id}: no dependency
get_user_internal(r, user_id) ==
    /\ app.phase = "serving"
    /\ req[r].pc \in {"idle", "done"}
    /\ ops < MaxOps
    /\ LET user == get_user(users, user_id)
       IN  req' = [req EXCEPT ![r] =
                IF user = None
                THEN [IdleReq EXCEPT !.pc = "done", !.op = "internal",
                                     !.user_id = user_id, !.status = 404,
                                     !.detail = "User not found", !.called = TRUE]
                ELSE [IdleReq EXCEPT !.pc = "done", !.op = "internal",
                                     !.user_id = user_id, !.status = 200,
                                     !.response = user, !.called = TRUE]]
    /\ ops' = ops + 1
    /\ UNCHANGED <<app, users, nextId, now, settings, login, issued, last>>

\* POST /users/: local signup, no dependency
CreateUser(payload) ==
    /\ app.phase = "serving"
    /\ ops < MaxOps
    /\ LET r == create_user(users, nextId, payload)
       IN  /\ r.raised \/ nextId <= MaxUsers
           /\ users' = r.users
           /\ nextId' = IF r.raised THEN nextId ELSE nextId + 1
           /\ login' = Touched(login, 0, r.users)
           /\ last' = IF r.users = users THEN last ELSE None
    /\ ops' = ops + 1
    /\ UNCHANGED <<app, now, settings, req, issued>>

\* A minute passes
Tick ==
    /\ ops < MaxOps
    /\ now' = now + SecondsPerMinute
    /\ ops' = ops + 1
    /\ UNCHANGED <<app, users, nextId, settings, login, req, issued, last>>

----------------------------------------------------------------------------
(* The service *)

Settings ==
    [google_client_id : {None, Some(<<"c">>)},
     jwt_secret_key : {"your-secret-key-change-in-production"},
     jwt_access_token_expire_minutes : {0, 1},
     db_host : {None, Some(<<>>), Some(<<"h">>)}, db_user : {None, Some(<<"u">>)},
     db_pass : {None, Some(<<"w">>)}, db_name : {None, Some(<<"d">>)}]

\* The database settings that main.py finds unset or empty
missing_vars(s) ==
    {v \in {"db_host", "db_user", "db_pass", "db_name"} : ~Truthy(s[v])}

\* The process before main.py has run; db_up says whether the database server
\* accepts the connection and the creation of the tables
Processes ==
    [phase : {"starting"}, user_service : {""}, error : {""}, db_up : BOOLEAN]

\* The process once main.py has run through
Serving ==
    [phase |-> "serving", user_service |-> "SqlAlchemyUserService", error |-> "",
     db_up |-> TRUE]

\* A start that serves from memory when the database cannot be reached
main_fallback(a, s) ==
    IF missing_vars(s) # {}
    THEN [a EXCEPT !.phase = "aborted", !.error = "Database configuration is required"]
    ELSE IF ~a.db_up
    THEN [a EXCEPT !.phase = "serving", !.user_service = "InMemoryUserService"]
    ELSE [a EXCEPT !.phase = "serving", !.user_service = "SqlAlchemyUserService"]

\* main.py: RuntimeError unless the database settings are complete and the
\* connection and create_all succeed; the Google client ID is only logged
main(a, s) ==
    IF missing_vars(s) # {}
    THEN [a EXCEPT !.phase = "aborted", !.error = "Database configuration is required"]
    ELSE IF ~a.db_up
    THEN [a EXCEPT !.phase = "aborted", !.error = "Failed to connect to database"]
    ELSE [a EXCEPT !.phase = "serving", !.user_service = "SqlAlchemyUserService"]

\* The import of app.main, which uvicorn serves once it has returned
Startup ==
    /\ app.phase = "starting"
    /\ app' = main(app, settings)
    /\ UNCHANGED <<users, nextId, now, settings, login, req, issued, last, ops>>

\* The tables the service can hold when the workers are idle: rows 1..n that
\* signups and logins have created, within the constraints of UserORM
InitRows ==
    [user_id : UserIds, username : {NameN}, email : Emails, phone : {None},
     google_id : {None} \cup {Some(g) : g \in GoogleIds}, role : {"user"}]

InitTables ==
    {tbl \in SUBSET InitRows :
        /\ UniqueOk(tbl)
        /\ {r.user_id : r \in tbl} = 1..Cardinality(tbl)}

\* The service at rest, at time 0, every linked account holding a token
Start(tables, configs, processes) ==
    /\ app \in processes
    /\ users \in tables
    /\ nextId = Cardinality(users) + 1
    /\ now = 0
    /\ settings \in configs
    /\ login = [p \in Logins |-> IdleLogin]
    /\ req = [r \in Reqs |-> IdleReq]
    /\ issued = {create_access_token(r.user_id, r.email, r.role, <<0, 0>>, settings) :
                    r \in {x \in users : x.google_id # None}}
    /\ last = None
    /\ ops = 0

Init ==
    Start(InitTables,
          {c \in Settings : c.jwt_access_token_expire_minutes = 1 /\ missing_vars(c) = {}},
          {Serving})

\* The tables of InitTables up to the naming of emails and Google IDs
GuardTables ==
    {tbl \in InitTables :
        \A r \in tbl :
            /\ r.email = (IF r.user_id = 1 THEN EmailA ELSE EmailB)
            /\ r.google_id \in {None, Some(IF r.user_id = 1 THEN "g1" ELSE "g2")}
            /\ (r.user_id = 2 /\ r.google_id # None =>
                    \E x \in tbl : x.user_id = 1 /\ x.google_id # None)}

InitGuard ==
    Start(GuardTables, {c \in Settings : c.google_client_id # None /\ missing_vars(c) = {}},
          {Serving})

\* The process before main.py has run, over any settings and any database
InitBoot ==
    Start(GuardTables, {c \in Settings : c.jwt_access_token_expire_minutes = 1},
          Processes)

\* The headers of a client that sends the token it was given, as it was given
BearerHeaders(tokens) == {Some(<<Word("Bearer"), Sp, Jwt(tok)>>) : tok \in tokens}

\* Logins on every worker, signups, and the account's owner updating and deleting
Next ==
    \/ \E p \in Logins : \E id_token \in IdTokens : \E d \in SameSecond :
         LoginStart(p, id_token, d)
    \/ \E p \in Logins : LoginByEmail(p)
    \/ \E p \in Logins : \E d \in SameSecond : LoginLink(p, d)
    \/ \E p \in Logins : \E d \in SameSecond : LoginCreate(p, d)
    \/ \E r \in Reqs : \E authorization \in BearerHeaders(issued) :
         \E user_id \in UserIds :
            ReqStart(r, "delete", authorization, user_id, {NoPayload})
    \/ \E r \in Reqs : \E authorization \in BearerHeaders(issued) :
         \E user_id \in UserIds :
            ReqStart(r, "update", authorization, user_id,
                     {UserUpdate(body) : body \in UpdateBodies})
    \/ \E r \in Reqs : ReqBody(r)
    \/ \E payload \in CreatePayloads : CreateUser(payload)

Spec == Init /\ [][Next]_vars

\* Logins on every worker while accounts are deleted by their owners
NextLive ==
    \/ \E p \in Logins : \E id_token \in IdTokens : \E d \in SameSecond :
         LoginStart(p, id_token, d)
    \/ \E p \in Logins : LoginByEmail(p)
    \/ \E p \in Logins : \E d \in SameSecond : LoginLink(p, d)
    \/ \E p \in Logins : \E d \in SameSecond : LoginCreate(p, d)
    \/ \E r \in Reqs : \E authorization \in BearerHeaders(issued) :
         \E user_id \in UserIds :
            ReqStart(r, "delete", authorization, user_id, {NoPayload})
    \/ \E r \in Reqs : ReqBody(r)

\* Every call of the user service returns: a login that is under way takes its
\* next step
SpecLive ==
    /\ Start(GuardTables,
             {c \in Settings : /\ c.google_client_id # None /\ missing_vars(c) = {}
                               /\ c.jwt_access_token_expire_minutes = 1},
             {Serving})
    /\ [][NextLive]_vars
    /\ \A p \in Logins :
        /\ WF_vars(LoginByEmail(p))
        /\ WF_vars(\E d \in SameSecond : LoginLink(p, d))
        /\ WF_vars(\E d \in SameSecond : LoginCreate(p, d))

\* One login at a time, and every request a client can send, as time passes
NextGuard ==
    \/ \E id_token \in IdTokens : \E d \in SameSecond : LoginStart(1, id_token, d)
    \/ LoginByEmail(1)
    \/ \E d \in SameSecond : LoginLink(1, d)
    \/ \E d \in SameSecond : LoginCreate(1, d)
    \/ \E r \in Reqs : \E op \in {"get", "delete"} :
         \E authorization \in Headers(issued) : \E user_id \in UserIds :
            ReqStart(r, op, authorization, user_id, {NoPayload})
    \/ \E r \in Reqs : \E authorization \in Headers(issued) :
         \E user_id \in UserIds :
            ReqStart(r, "update", authorization, user_id,
                     {UserUpdate(body) : body \in UpdateBodies})
    \/ \E r \in Reqs : ReqBody(r)
    \/ \E r \in Reqs : \E authorization \in Headers(issued) : AuthMe(r, authorization)
    \/ \E r \in Reqs : \E user_id \in UserIds : get_user_internal(r, user_id)
    \/ Tick

SpecGuard == InitGuard /\ [][NextGuard]_vars

\* The start of the process, and the logins and lookups it serves afterwards
NextBoot ==
    \/ Startup
    \/ \E id_token \in IdTokens : \E d \in SameSecond : LoginStart(1, id_token, d)
    \/ LoginByEmail(1)
    \/ \E d \in SameSecond : LoginLink(1, d)
    \/ \E d \in SameSecond : LoginCreate(1, d)
    \/ \E r \in Reqs : \E user_id \in UserIds : get_user_internal(r, user_id)

SpecBoot == InitBoot /\ [][NextBoot]_vars

\* A login that has made its lookups, by Google ID and by email, in table tbl
InFlight(id_token, tbl, s) ==
    LET l0 == [IdleLogin EXCEPT !.alone = TRUE, !.n0 = Cardinality(tbl)]
        l1 == google_login_start(l0, id_token, tbl, <<0, 0>>, s)
        l == [l1 EXCEPT !.prev = PrevOf(l1, None), !.pre = PreOf(l1, tbl)]
    IN  IF l.pc = "by_email" THEN google_login_by_email(l, tbl) ELSE l

\* The service with one login under way on worker 1, its email verified by Google,
\* about to link or to create; ops counts the requests that come from then on
InitRace ==
    /\ app = Serving
    /\ users \in InitTables
    /\ nextId = Cardinality(users) + 1
    /\ now = 0
    /\ settings \in {c \in Settings : /\ c.google_client_id # None /\ missing_vars(c) = {}
                                     /\ c.jwt_access_token_expire_minutes = 1}
    /\ \E id_token \in IdTokens :
        /\ id_token.email_verified
        /\ InFlight(id_token, users, settings).pc \in {"link", "create"}
        /\ login = [p \in Logins |->
                        IF p = 1 THEN InFlight(id_token, users, settings) ELSE IdleLogin]
    /\ req = [r \in Reqs |-> IdleReq]
    /\ issued = {create_access_token(r.user_id, r.email, r.role, <<0, 0>>, settings) :
                    r \in {x \in users : x.google_id # None}}
    /\ last = None
    /\ ops = 0

\* The login under way and another one, while accounts are updated by their owners
NextRace ==
    \/ \E p \in Logins : \E id_token \in IdTokens : \E d \in SameSecond :
         LoginStart(p, id_token, d)
    \/ \E p \in Logins : LoginByEmail(p)
    \/ \E p \in Logins : \E d \in SameSecond : LoginLink(p, d)
    \/ \E p \in Logins : \E d \in SameSecond : LoginCreate(p, d)
    \/ \E r \in Reqs : \E authorization \in BearerHeaders(issued) :
         \E user_id \in UserIds :
            ReqStart(r, "update", authorization, user_id,
                     {UserUpdate(body) : body \in UpdateBodies})
    \/ \E r \in Reqs : ReqBody(r)

SpecRace == InitRace /\ [][NextRace]_vars

\* One login at a time, at any moment of the second
NextClock ==
    \/ \E id_token \in IdTokens : \E d \in TurnOfSecond : LoginStart(1, id_token, d)
    \/ LoginByEmail(1)
    \/ \E d \in TurnOfSecond : LoginLink(1, d)
    \/ \E d \in TurnOfSecond : LoginCreate(1, d)

SpecClock == InitGuard /\ [][NextClock]_vars

----------------------------------------------------------------------------
(* Properties of the login *)

\* The rows of the table with a given email, and with a given Google ID
RowsByEmail(email) == {r \in users : r.email = email}
RowsByGoogleId(google_id) == {r \in users : r.google_id = Some(google_id)}

Finished(p) == login[p].pc = "done"

\* C1: a login with claims whose Google ID and email are both new to the table, with
\* nothing else touching the table meanwhile, adds exactly one row, carrying those
\* claims, and answers is_new_user = true; the next login with the same claims, again
\* with nothing in between, adds no row and answers the same id with
\* is_new_user = false; and is_new_user = true is only ever answered by the login
\* whose own insert made the account it returns
C1_FirstLoginCreatesSecondFinds ==
    \A p \in Logins :
        /\ (Finished(p) /\ login[p].alone /\ login[p].pre = "fresh" =>
                /\ login[p].status = 200
                /\ login[p].is_new_user
                /\ Cardinality(users) = login[p].n0 + 1
                /\ \E r \in users :
                    /\ r.user_id = login[p].user[1].id
                    /\ r.email = login[p].info[1].email[1]
                    /\ r.google_id = Some(login[p].info[1].google_id))
        /\ (Finished(p) /\ login[p].alone /\ login[p].prev # None
                /\ login[p].prev[1].is_new_user =>
                /\ login[p].status = 200
                /\ ~login[p].is_new_user
                /\ login[p].user[1].id = login[p].prev[1].id
                /\ Cardinality(users) = login[p].n0)
        /\ (login[p].is_new_user =>
                /\ login[p].user # None
                /\ login[p].created = Some(login[p].user[1].id))

\* A login has found the account that the login before it created
C1_Witness ==
    \E p \in Logins :
        /\ Finished(p) /\ login[p].alone /\ login[p].status = 200
        /\ login[p].prev # None /\ login[p].prev[1].is_new_user
        /\ ~login[p].is_new_user

\* C2: whatever signups, logins, updates, links and deletes have run, and however
\* they interleaved, no two rows have the same email and no two rows have the same
\* Google ID that is not NULL
C2_UniqueEmailAndGoogleId ==
    \A r1 \in users : \A r2 \in users :
        r1 # r2 =>
            /\ r1.email # r2.email
            /\ ~(r1.google_id # None /\ r1.google_id = r2.google_id)

\* The table holds two accounts and has refused a login's insert
C2_Witness ==
    /\ Cardinality(users) = 2
    /\ \E p \in Logins : login[p].detail = "Failed to create user account"

\* C3: when the logins that ran at the same time carried the same claims, new to the
\* table when each started, and nothing else has touched the table, then once they
\* have all finished the table has exactly one row with that email and exactly one
\* with that Google ID, and it is the same row
C3_ConcurrentLoginsOneAccount ==
    \A p \in Logins : \A q \in Logins :
        (/\ p # q /\ Finished(p) /\ Finished(q)
         /\ SameClaims(login[p], login[q])
         /\ login[p].pre = "fresh" /\ login[q].pre = "fresh"
         /\ ~login[p].foreign /\ ~login[q].foreign)
        => /\ Cardinality(RowsByEmail(login[p].info[1].email[1])) = 1
           /\ Cardinality(RowsByGoogleId(login[p].info[1].google_id)) = 1
           /\ RowsByEmail(login[p].info[1].email[1])
                = RowsByGoogleId(login[p].info[1].google_id)

\* Two logins with the same new claims have both run their insert
C3_Witness ==
    \E p \in Logins : \E q \in Logins :
        /\ p # q /\ Finished(p) /\ Finished(q)
        /\ SameClaims(login[p], login[q])
        /\ login[p].pre = "fresh" /\ login[q].pre = "fresh"
        /\ ~login[p].foreign /\ ~login[q].foreign
        /\ login[p].calls = 3 /\ login[q].calls = 3
        /\ login[p].created # None /\ login[q].created = None

\* C4: when the insert of a login is refused for a duplicate email or Google ID, the
\* login looks the account up again, by Google ID and by email, and answers 200 with
\* the account it finds and is_new_user = false; the refusal does not reach the caller
C4_CreateRaceRetried ==
    [][\A p \in Logins :
        (/\ login[p].pc = "create" /\ login'[p].pc = "done"
         /\ create_user_from_google(users, nextId, login[p].info[1].google_id,
                                    login[p].info[1].email[1],
                                    login[p].info[1].name).raised)
        => /\ login'[p].status = 200
           /\ ~login'[p].is_new_user
           /\ login'[p].user # None
           /\ login'[p].user \in
                {get_user_by_google_id(users, login[p].info[1].google_id),
                 get_user_by_email(users, login[p].info[1].email[1])}]_vars

\* C5: a login whose Google ID no row has and whose email is that of a row without
\* Google ID, with nothing else touching the table meanwhile, writes its Google ID
\* into that row, adds no row, and answers 200 with that row and is_new_user = false;
\* the account a login answers from its email branch has the email of the claims
C5_EmailMatchLinks ==
    \A p \in Logins :
        /\ (Finished(p) /\ login[p].alone /\ login[p].pre = "email_unlinked" =>
                /\ login[p].status = 200
                /\ ~login[p].is_new_user
                /\ login[p].link = "ok"
                /\ Cardinality(users) = login[p].n0
                /\ \E r \in users :
                    /\ r.user_id = login[p].user[1].id
                    /\ r.email = login[p].info[1].email[1]
                    /\ r.google_id = Some(login[p].info[1].google_id))
        /\ (Finished(p) /\ login[p].alone /\ login[p].link # "" /\ login[p].status = 200 =>
                login[p].user[1].email = login[p].info[1].email[1])

\* A login has linked its Google ID to the account that had its email
C5_Witness ==
    \E p \in Logins :
        /\ Finished(p) /\ login[p].alone /\ login[p].pre = "email_unlinked"
        /\ login[p].link = "ok"
        /\ \E r \in users :
            r.user_id = login[p].user[1].id /\ r.google_id = Some(login[p].info[1].google_id)

\* C6: once a row has a Google ID, no step gives that row another one
C6_LinkAtMostOnce ==
    [][\A r \in users : \A r2 \in users' :
        (r.google_id # None /\ r2.user_id = r.user_id) => r2.google_id = r.google_id]_vars

\* C7: a login that found an account by email answers 200 with that account,
\* is_new_user = false and a token, whatever became of the link
C7_LinkFailureAbsorbed ==
    \A p \in Logins :
        (Finished(p) /\ login[p].link # "") =>
            /\ login[p].status = 200
            /\ ~login[p].is_new_user
            /\ login[p].user # None
            /\ login[p].token # None

\* C8: a login whose ID token has no email, or an empty one, answers 400 "Email not
\* found in Google token" and has called the user service not once: no lookup, no
\* link, no insert, no account and no access token
C8_MissingEmailRejected ==
    \A p \in Logins :
        (login[p].info # None /\ ~Truthy(login[p].info[1].email)) =>
            /\ Finished(p)
            /\ login[p].status = 400
            /\ login[p].detail = "Email not found in Google token"
            /\ login[p].calls = 0
            /\ login[p].link = ""
            /\ login[p].created = None
            /\ login[p].user = None
            /\ login[p].token = None
            /\ (login[p].alone => Cardinality(users) = login[p].n0)

\* A login with an empty email has been answered
C8_Witness ==
    \E p \in Logins :
        Finished(p) /\ login[p].info # None /\ login[p].info[1].email = Some(<<>>)

\* C19: a login whose Google ID a row has is answered 200 with that row and
\* is_new_user = false after the one lookup by Google ID: no lookup by email, no
\* link, no insert, whatever email the claims carry and whoever owns that email;
\* while nothing else touches the table, the row is there as it was answered
C19_GoogleIdFirst ==
    \A p \in Logins :
        (Finished(p) /\ login[p].pre = "known") =>
            /\ login[p].status = 200
            /\ ~login[p].is_new_user
            /\ login[p].calls = 1
            /\ login[p].link = ""
            /\ login[p].created = None
            /\ login[p].user # None
            /\ login[p].token # None
            /\ login[p].token[1].sub = Some(login[p].user[1].id)
            /\ (login[p].alone =>
                    /\ Cardinality(users) = login[p].n0
                    /\ \E r \in RowsByGoogleId(login[p].info[1].google_id) :
                            UserRead(r) = login[p].user[1])

\* A login has been answered the account of its Google ID while its email was
\* that of another account
C19_Witness ==
    \E p \in Logins :
        /\ Finished(p) /\ login[p].pre = "known" /\ login[p].alone
        /\ login[p].user[1].email # login[p].info[1].email[1]
        /\ \E b \in RowsByEmail(login[p].info[1].email[1]) :
                b.user_id # login[p].user[1].id /\ b.google_id = None

\* The part of an email before its first '@'
LocalPart(email) ==
    SubSeq(email, 1,
           (CHOOSE i \in 1..Len(email) :
                email[i] = "@" /\ \A j \in 1..(i - 1) : email[j] # "@") - 1)

\* The ids that a row has, that a row had, and that a token in circulation names
UsedIds ==
    {r.user_id : r \in users} \cup {id \in UserIds : id < nextId}
        \cup {tok.sub[1] : tok \in issued}

\* C23: the row that the insert of a login has made, while nothing else has touched
\* the table, has the email and the Google ID of the claims, the role "user", no
\* phone, and as username the name of the claims if there is one that is not empty,
\* else the email up to its first '@'; and its id was, at the insert, the id of no
\* row, of no row deleted before, and of no token in circulation
C23_CreatedAccount ==
    /\ [](\A p \in Logins :
            (Finished(p) /\ login[p].created # None /\ login[p].alone) =>
                \E r \in users :
                    /\ r.user_id = login[p].created[1]
                    /\ r.email = login[p].info[1].email[1]
                    /\ r.google_id = Some(login[p].info[1].google_id)
                    /\ r.role = "user"
                    /\ r.phone = None
                    /\ r.username =
                        (IF login[p].info[1].name \notin {None, Some(<<>>)}
                         THEN login[p].info[1].name[1]
                         ELSE LocalPart(login[p].info[1].email[1]))
                    /\ login[p].user = Some([id |-> r.user_id, email |-> r.email,
                                             full_name |-> r.username,
                                             primary_phone |-> None, role |-> "user"]))
    /\ [][\A p \in Logins :
            (login[p].pc = "create" /\ login'[p].created # None) =>
                login'[p].created[1] \notin UsedIds]_vars

\* A login whose claims carry an empty name has created an account
C23_Witness ==
    \E p \in Logins :
        /\ Finished(p) /\ login[p].created # None /\ login[p].alone
        /\ login[p].info[1].name = Some(<<>>)
        /\ \E r \in users : r.user_id = login[p].created[1] /\ r.username = <<"b">>

\* C24: a login without a Google client ID in the settings is not answered as a
\* login with an ID token that fails verification is
C24_ConfigurationErrorDistinct ==
    \A p \in Logins :
        (Finished(p) /\ ~Truthy(settings.google_client_id)) =>
            ~(login[p].status = 400
              /\ login[p].detail = "Invalid or expired Google ID token")

\* C25: a login has called the user service three times at most, and every login
\* that is under way comes to its answer, 200, 400 or 500, whatever the other
\* requests do meanwhile
C25_LoginTerminates ==
    /\ [](\A p \in Logins :
            /\ login[p].calls <= 3
            /\ Finished(p) => login[p].status \in {200, 400, 500})
    /\ \A p \in Logins :
        (login[p].pc \in {"by_email", "link", "create"}) ~> Finished(p)

\* A login has been answered after three calls of the user service while another
\* login worked on the table
C25_Witness ==
    \E p \in Logins : Finished(p) /\ login[p].calls = 3 /\ ~login[p].alone

\* C26: a login whose claims have email_verified false links its Google ID to no
\* account found by its email, creates no account, and is given no token for an
\* account it found by its email
C26_UnverifiedNeverBinds ==
    \A p \in Logins :
        (login[p].info # None /\ ~login[p].info[1].email_verified) =>
            /\ login[p].link # "ok"
            /\ login[p].created = None
            /\ (login[p].pre \in {"email_unlinked", "email_linked"} =>
                    login[p].token = None)

\* C27: a login holds a token only with the answer 200 and the account it returns,
\* the token's sub being that account's id; a login answered otherwise returns no
\* token and no account; and in the step that issues the token the table has the
\* returned account as a row, with the email and the role of the token
C27_TokenForResolvedAccount ==
    /\ [](\A p \in Logins :
            /\ login[p].token # None =>
                    /\ Finished(p) /\ login[p].status = 200 /\ login[p].user # None
                    /\ login[p].token[1].sub = Some(login[p].user[1].id)
            /\ (Finished(p) /\ login[p].status # 200) =>
                    login[p].token = None /\ login[p].user = None)
    /\ [][\A p \in Logins :
            (login[p].token = None /\ login'[p].token # None) =>
                \E r \in users' :
                    /\ r.user_id = login'[p].user[1].id
                    /\ r.user_id = login'[p].token[1].sub[1]
                    /\ r.email = login'[p].token[1].email
                    /\ r.role = login'[p].token[1].role]_vars

----------------------------------------------------------------------------
(* Properties of the account-scoped endpoints *)

Guarded == {"get", "update", "delete"}

\* C9: a request to get, update or delete that passed the dependency as account A is
\* answered 403 when its user_id is not A's id, without a call of the user service and
\* without a change of the table, and reaches the user service when it is A's id
C9_SelfOnly ==
    \A r \in Reqs :
        (req[r].pc = "done" /\ req[r].op \in Guarded /\ req[r].current_user # None) =>
            IF req[r].user_id # req[r].current_user[1].id
            THEN /\ req[r].status = 403
                 /\ ~req[r].called
                 /\ ~req[r].changed
                 /\ req[r].response = None
            ELSE /\ req[r].status # 403
                 /\ req[r].called

\* A request for an account that exists has been answered 403
C9_Witness ==
    \E r \in Reqs :
        /\ req[r].pc = "done" /\ req[r].status = 403
        /\ \E x \in users : x.user_id = req[r].user_id

\* C10 as claimed: get, internal get, update and delete return or change an account
\* only for a caller who passed the dependency as that account
C10_AllPathOperationsGuarded ==
    \A r \in Reqs :
        (/\ req[r].pc = "done" /\ req[r].op \in Guarded \cup {"internal"}
         /\ (req[r].response # None \/ req[r].changed))
        => /\ req[r].current_user # None
           /\ req[r].current_user[1].id = req[r].user_id

\* C10: get, update and delete return or change an account only for a caller who
\* passed the dependency as that account (the internal get has no dependency)
C10_GuardedOperationsSelfOnly ==
    \A r \in Reqs :
        (/\ req[r].pc = "done" /\ req[r].op \in Guarded
         /\ (req[r].response # None \/ req[r].changed))
        => /\ req[r].current_user # None
           /\ req[r].current_user[1].id = req[r].user_id

\* An account has been returned to its owner, and one has been changed by its owner
C10_Witness ==
    \E r \in Reqs :
        /\ req[r].pc = "done" /\ req[r].op = "update" /\ req[r].changed
        /\ req[r].response # None
        /\ req[r].current_user[1].id = req[r].user_id

\* C20: for a request that passed the dependency and whose user_id is not the
\* caller's id, the body answers the same 403, with the same detail and no account,
\* and leaves the table alone, over the table without a row of that id and over the
\* table with any row of that id; and the 403 a request got names its endpoint only
C20_ForbiddenWhateverTheTarget ==
    \A r \in Reqs :
        /\ (req[r].pc = "body" /\ NotSelf(req[r])) =>
                LET without == {x \in users : x.user_id # req[r].user_id}
                    absent == users_body(req[r], without)
                IN  /\ absent.users = without
                    /\ absent.req.status = 403
                    /\ absent.req.response = None
                    /\ ~absent.req.called
                    /\ \A row \in InitRows :
                        row.user_id = req[r].user_id =>
                            LET present == users_body(req[r], without \cup {row})
                            IN  /\ present.req = absent.req
                                /\ present.users = without \cup {row}
        /\ (req[r].pc = "done" /\ req[r].status = 403) =>
                /\ req[r].response = None
                /\ ~req[r].called
                /\ req[r].detail \in
                    {"You can only access your own user information",
                     "You can only update your own user information",
                     "You can only delete your own account"}

\* A request for an id that no account has has been answered 403
C20_Witness ==
    \E r \in Reqs :
        /\ req[r].pc = "done" /\ req[r].status = 403
        /\ get_user(users, req[r].user_id) = None

\* C30: no step in which a request to get, update or delete is answered 401 or 403
\* changes the table, and no request so answered has called the user service from
\* the body of its endpoint
C30_RejectedLeavesStore ==
    /\ [](\A r \in Reqs :
            (req[r].pc = "done" /\ req[r].op \in Guarded /\ req[r].status \in {401, 403})
                => ~req[r].changed /\ ~req[r].called)
    /\ [][\A r \in Reqs :
            (/\ req'[r] # req[r] /\ req'[r].pc = "done" /\ req'[r].op \in Guarded
             /\ req'[r].status \in {401, 403})
            => users' = users /\ nextId' = nextId]_vars

\* A request to update or delete an account that exists, made as another account,
\* has been answered 403
C30_Witness ==
    \E r \in Reqs :
        /\ req[r].pc = "done" /\ req[r].status = 403
        /\ req[r].op \in {"update", "delete"}
        /\ get_user(users, req[r].user_id) # None

----------------------------------------------------------------------------
(* Properties of the bearer guard *)

\* The outcome that a 401 of the guard stands for
Outcome(detail) ==
    CASE detail = "Authorization header missing" -> "MissingCredential"
      [] detail = "Invalid authorization header format. Expected: Bearer <token>" ->
            "MalformedCredential"
      [] detail = "Invalid token payload" -> "MalformedCredential"
      [] detail = "Invalid or expired token" -> "InvalidOrExpiredCredential"
      [] detail = "User not found" -> "UnknownAccount"
      [] OTHER -> "Authenticated"

\* What the guard owes a header h, present telling whether h counts as present:
\* the account, or the outcome of the first condition that fails
Authenticate(h, present) ==
    LET parts == IF h = None THEN <<>> ELSE Split(h[1])
        two == /\ Len(parts) = 2 /\ parts[1].t = "word"
               /\ parts[1].w \in {"bearer", "Bearer", "BEARER"}
        verified == /\ two /\ parts[2].t = "jwt"
                    /\ parts[2].v.key = settings.jwt_secret_key
                    /\ parts[2].v.exp > now
        subject == verified /\ parts[2].v.sub # None
        rows == IF subject THEN {r \in users : r.user_id = parts[2].v.sub[1]} ELSE {}
    IN  IF ~present THEN [outcome |-> "MissingCredential", account |-> {}]
        ELSE IF ~two THEN [outcome |-> "MalformedCredential", account |-> {}]
        ELSE IF ~verified THEN [outcome |-> "InvalidOrExpiredCredential", account |-> {}]
        ELSE IF ~subject THEN [outcome |-> "MalformedCredential", account |-> {}]
        ELSE IF rows = {} THEN [outcome |-> "UnknownAccount", account |-> {}]
        ELSE [outcome |-> "Authenticated", account |-> {UserRead(r) : r \in rows}]

\* Whether the guard gives header h what it is owed
GuardAgrees(h, present) ==
    LET g == get_current_user(h, users, now, settings)
        a == Authenticate(h, present)
    IN  /\ (g.status = 200) = (a.outcome = "Authenticated")
        /\ g.status \in {200, 401}
        /\ Outcome(g.detail) = a.outcome
        /\ {g.user[i] : i \in 1..Len(g.user)} = a.account

\* No request that the guard rejected has reached the body of its endpoint
RejectedNeverRuns ==
    \A r \in Reqs :
        req[r].status = 401 =>
            /\ req[r].pc = "done" /\ req[r].current_user = None
            /\ ~req[r].called /\ ~req[r].changed /\ req[r].response = None

\* C11 as claimed: in every state, the guard returns the account for exactly the
\* headers that are present, split into two items of which the first is "bearer" in
\* any case and the second a token of the server's key that has not expired and has
\* a subject whose account exists; any other header is rejected with 401 and the
\* outcome of the first condition that fails, an absent header alone being missing
C11_GuardContract_AbsentOnly ==
    /\ \A h \in Headers(issued) : GuardAgrees(h, h # None)
    /\ RejectedNeverRuns

\* C11: the same, a header that is absent or empty being the missing credential
C11_GuardContract ==
    /\ \A h \in Headers(issued) : GuardAgrees(h, h # None /\ h # Some(<<>>))
    /\ RejectedNeverRuns

\* A token of the server's key without subject has been rejected
C11_Witness ==
    \E r \in Reqs :
        /\ req[r].pc = "done" /\ req[r].status = 401
        /\ req[r].detail = "Invalid token payload"

\* The tokens in circulation whose account has been deleted
Orphaned == {tok \in issued : tok.sub[1] < nextId /\ get_user(users, tok.sub[1]) = None}

\* C12: in every state in which the account of an issued token is no longer in the
\* table, the guard answers that token, while it has not expired, with 401 "User not
\* found", and no request so answered has reached the body of its endpoint
C12_OrphanedTokenRejected ==
    /\ \A tok \in Orphaned :
        (tok.exp > now /\ tok.key = settings.jwt_secret_key) =>
            \A h \in BearerHeaders({tok}) :
                get_current_user(h, users, now, settings)
                    = [status |-> 401, detail |-> "User not found", user |-> None]
    /\ \A r \in Reqs :
        (req[r].status = 401 /\ req[r].detail = "User not found") =>
            /\ req[r].pc = "done" /\ req[r].current_user = None
            /\ ~req[r].called /\ ~req[r].changed /\ req[r].response = None

\* A request has come with the unexpired token of an account deleted before
C12_Witness ==
    /\ \E tok \in Orphaned : tok.exp > now
    /\ \E r \in Reqs :
        req[r].pc = "done" /\ req[r].status = 401 /\ req[r].detail = "User not found"

\* C28: the account that a login creates is answered with is_new_user = true under
\* an id that no token issued so far has as its sub, and from then on every token
\* of a deleted account that carries the email of that login's claims is answered
\* 401 by the dependency, which returns no account for it
C28_OldTokenNotReborn ==
    /\ [](\A p \in Logins :
            (Finished(p) /\ login[p].created # None) =>
                /\ login[p].is_new_user
                /\ \A tok \in Orphaned :
                    tok.email = login[p].info[1].email[1] =>
                        \A h \in BearerHeaders({tok}) :
                            LET g == get_current_user(h, users, now, settings)
                            IN  g.status = 401 /\ g.user = None)
    /\ [][\A p \in Logins :
            (login[p].created = None /\ login'[p].created # None) =>
                \A tok \in issued : tok.sub # login'[p].created]_vars

\* An account has been deleted, a login with its Google ID and email has created
\* another, and the unexpired token of the first is in circulation
C28_Witness ==
    \E p \in Logins :
        /\ Finished(p) /\ login[p].created # None
        /\ \E tok \in Orphaned :
            /\ tok.exp > now
            /\ \E r \in users :
                /\ r.user_id = login[p].created[1]
                /\ r.email = tok.email
                /\ r.google_id = Some(login[p].info[1].google_id)
        /\ \E r \in Reqs : req[r].op = "delete" /\ req[r].changed

\* C29: the dependency answers every unexpired issued token whose account is in the
\* table with the account as the table has it now, whatever email and role the token
\* carries, and a request for that account's own id is not answered 403 when the
\* email of its token is no longer the account's
C29_GuardReturnsStoreRecord ==
    /\ \A tok \in issued :
        (tok.exp > now /\ get_user(users, tok.sub[1]) # None) =>
            \A h \in BearerHeaders({tok}) :
                get_current_user(h, users, now, settings)
                    = [status |-> 200, detail |-> "",
                       user |-> get_user(users, tok.sub[1])]
    /\ \A r \in Reqs :
        (/\ req[r].pc = "done" /\ req[r].op \in Guarded /\ req[r].current_user # None
         /\ req[r].user_id = req[r].current_user[1].id)
        => req[r].status # 403

\* A request with a token issued before the account's email was updated has been
\* answered with the account under its new email
C29_Witness ==
    \E r \in Reqs :
        /\ req[r].pc = "done" /\ req[r].status = 200 /\ req[r].response # None
        /\ req[r].op \in {"get", "me"}
        /\ req[r].response = get_user(users, req[r].current_user[1].id)
        /\ \A tok \in issued :
            tok.sub = Some(req[r].current_user[1].id) =>
                tok.email # req[r].response[1].email

----------------------------------------------------------------------------
(* Properties of the access tokens *)

\* C13: the token a login was answered with, verified at any time from its issue
\* up to, but not at, its expiry, yields a payload whose sub, email and role are the
\* id, email and role of the account the login answered
C13_TokenRoundTrip ==
    \A p \in Logins :
        login[p].token # None =>
            \A t \in login[p].token[1].iat .. (login[p].token[1].exp - 1) :
                LET payload == verify_access_token(Jwt(login[p].token[1]), t, settings)
                IN  /\ payload # None
                    /\ payload[1].sub = Some(login[p].user[1].id)
                    /\ payload[1].email = login[p].user[1].email
                    /\ payload[1].role = login[p].user[1].role

\* A request has been authenticated with the token of a login, before its expiry
C13_Witness ==
    \E p \in Logins : \E r \in Reqs :
        /\ login[p].token # None /\ now < login[p].token[1].exp
        /\ req[r].pc = "done" /\ req[r].current_user # None
        /\ req[r].current_user[1].id = login[p].token[1].sub[1]

\* C14: in every state, every token in circulation whose exp is not later than the
\* clock (a token of zero minutes from the moment of its issue, and any token once
\* the clock has reached its exp), and every token that was not signed with the
\* server's key, fails verification, and the guard answers both alike with
\* 401 "Invalid or expired token"
C14_ExpiredOrForgedRejected ==
    /\ \A tok \in issued \cup Forged(issued) :
        (tok.exp <= now \/ tok.key # settings.jwt_secret_key) =>
            /\ verify_access_token(Jwt(tok), now, settings) = None
            /\ \A h \in BearerHeaders({tok}) :
                get_current_user(h, users, now, settings)
                    = [status |-> 401, detail |-> "Invalid or expired token",
                       user |-> None]
    /\ verify_access_token(Word("garbage"), now, settings) = None
    /\ \A r \in Reqs :
        (req[r].status = 401 /\ req[r].detail = "Invalid or expired token") =>
            /\ req[r].pc = "done" /\ req[r].current_user = None
            /\ ~req[r].called /\ ~req[r].changed /\ req[r].response = None

\* A request has come with the token a login was given, at or after its expiry
C14_Witness ==
    \E p \in Logins : \E r \in Reqs :
        /\ login[p].token # None /\ login[p].token[1].exp <= now
        /\ req[r].pc = "done" /\ req[r].status = 401
        /\ req[r].detail = "Invalid or expired token"

\* C21: no step that leaves the clock and the settings alone changes what the
\* verification of any token yields, whatever the step does to the table: the
\* account of a token may be updated or deleted and its verification is the same
C21_VerifyIgnoresStore ==
    [][\A tok \in issued \cup Forged(issued) :
        (now' = now /\ settings' = settings) =>
            verify_access_token(Jwt(tok), now, settings)'
                = verify_access_token(Jwt(tok), now, settings)]_vars

\* The token of an account that has been deleted still verifies
C21_Witness ==
    \E tok \in issued :
        /\ tok.sub[1] < nextId /\ get_user(users, tok.sub[1]) = None
        /\ verify_access_token(Jwt(tok), now, settings) = Some(tok)

\* C22: the exp of the token a login was answered with is later than its iat by
\* the configured minutes times 60 exactly, which is the expires_in of the same
\* response
C22_LifetimeIsExpiresIn ==
    \A p \in Logins :
        login[p].token # None =>
            /\ login[p].expires_in
                    = settings.jwt_access_token_expire_minutes * SecondsPerMinute
            /\ login[p].token[1].exp - login[p].token[1].iat = login[p].expires_in

----------------------------------------------------------------------------
(* Properties of the rows *)

\* C15: every row has the role "user", and every step leaves each row that stays
\* with its user_id and its role: a step changes at most one row, in place, and a
\* row that is new has the id just generated and the role "user"
C15_IdAndRoleFrozen ==
    /\ [](\A r \in users : r.role = "user" /\ r.user_id < nextId)
    /\ [][LET removed == users \ users'
              added == users' \ users
          IN  /\ Cardinality(removed) <= 1
              /\ Cardinality(added) <= 1
              /\ \A n \in added :
                    IF removed = {}
                    THEN n.user_id = nextId /\ nextId' = nextId + 1 /\ n.role = "user"
                    ELSE \A o \in removed : n.user_id = o.user_id /\ n.role = o.role]_vars

\* A login has linked its Google ID to a row, and an update has changed a row
C15_Witness ==
    /\ \E p \in Logins : login[p].link = "ok"
    /\ \E r \in Reqs : req[r].op = "update" /\ req[r].changed /\ req[r].status = 200

\* The ids that have been given to a row that is no longer in the table
Deleted == {id \in UserIds : id < nextId /\ get_user(users, id) = None}

\* C16: in every state, delete_user of an id in the table returns True and leaves
\* a table without it, and delete_user of any other id returns False and leaves the
\* table as it is; and no step brings back an id that has been deleted, whether
\* it is a login, a signup, an update or a link
C16_DeleteIsTerminal ==
    /\ [](\A id \in UserIds :
            LET d == delete_user(users, id)
            IN  IF get_user(users, id) = None
                THEN d = [users |-> users, ok |-> FALSE]
                ELSE d.ok /\ get_user(d.users, id) = None)
    /\ [][/\ \A id \in Deleted : get_user(users', id) = None
          /\ \A r \in Reqs :
                (req[r].pc = "body" /\ req'[r].op = "delete" /\ req'[r].status = 204) =>
                    req[r].user_id \in Deleted']_vars

\* Since an account was deleted, a login has created another
C16_Witness ==
    /\ Deleted # {}
    /\ \E r \in Reqs : req[r].op = "delete" /\ req[r].status = 204
    /\ \E p \in Logins : Finished(p) /\ login[p].alone /\ login[p].created # None

\* C31: a step of a login that inserts no row (its lookups, its link, a refused
\* insert) leaves in the table the rows it found, each with its id, email, username,
\* phone and role; the only Google ID it may change is that of the account the
\* login found by email, which becomes the Google ID of the login's claims
C31_LoginFrame ==
    [][(req' = req /\ nextId' = nextId) =>
        /\ {r.user_id : r \in users'} = {r.user_id : r \in users}
        /\ \A r \in users : \A r2 \in users' :
            r2.user_id = r.user_id =>
                /\ r2.email = r.email /\ r2.username = r.username
                /\ r2.phone = r.phone /\ r2.role = r.role
                /\ (r2.google_id # r.google_id =>
                        \E p \in Logins :
                            /\ login[p].pc = "link"
                            /\ login[p].user[1].id = r.user_id
                            /\ r2.google_id = Some(login[p].info[1].google_id))]_vars

\* A login whose claims carry another email and another name than the account of
\* its Google ID has been answered with that account, which the table has as it was
C31_Witness ==
    \E p \in Logins :
        /\ Finished(p) /\ login[p].status = 200 /\ login[p].created = None
        /\ login[p].info[1].email[1] # login[p].user[1].email
        /\ login[p].info[1].name = Some(NameN)
        /\ login[p].user[1].full_name # NameN
        /\ get_user(users, login[p].user[1].id) = login[p].user

----------------------------------------------------------------------------
(* Properties of the start of the process *)

\* C17: the process serves only with a Google client ID in its settings, and no
\* login is ever answered without one
C17_NoServiceWithoutClientId ==
    /\ app.phase = "serving" => Truthy(settings.google_client_id)
    /\ \A p \in Logins : login[p].pc # "idle" => Truthy(settings.google_client_id)

\* The database settings are all there, none of them empty
DbConfigured ==
    \A v \in {"db_host", "db_user", "db_pass", "db_name"} :
        settings[v] # None /\ settings[v] # Some(<<>>)

\* C18: the process serves only if the four database settings are set and the
\* connection and the creation of the tables succeeded, and then from the SQLAlchemy
\* user service; if a setting is missing or the database is down, the start ends in
\* an error, no request is ever taken, and no other user service is ever installed
C18_ServesOnlyWithDatabase ==
    /\ app.phase = "serving" =>
            DbConfigured /\ app.db_up /\ app.user_service = "SqlAlchemyUserService"
    /\ (app.phase # "starting" /\ ~(DbConfigured /\ app.db_up)) =>
            app.phase = "aborted" /\ app.error # ""
    /\ app.phase # "serving" =>
            /\ app.user_service = ""
            /\ ops = 0
            /\ \A p \in Logins : login[p] = IdleLogin
            /\ \A r \in Reqs : req[r] = IdleReq

\* The start has failed at a database that is configured and down
C18_Witness ==
    /\ DbConfigured /\ ~app.db_up
    /\ app.phase = "aborted" /\ app.error = "Failed to connect to database"

====
